---- MODULE Spec2Model ----
(***************************************************************************)
(* FLBacktester: a bar-driven backtester (src/src/flbacktester) that turns *)
(* pending market, limit and stop orders into trades while it walks the    *)
(* rows of a price table, keeps a position column in that table and        *)
(* buffers the executed trades in a bounded deque that is flushed into the *)
(* executed_trades table.                                                  *)
(*                                                                         *)
(* The state is that of one FLBacktesterBase object together with the      *)
(* position of its caller: "idle" (constructed, data loaded, backtest()    *)
(* not yet called), "process" (inside the loop of backtest(), about to     *)
(* take the next row), "strategy" (inside the strategy callback of the     *)
(* current row), "done" (backtest() has returned) and, in the fee-aware    *)
(* variant SingleContractBacktesterBase (src/src/cerp), "error" (the run   *)
(* was left by an exception).                                              *)
(***************************************************************************)
EXTENDS Integers, Sequences, FiniteSets, TLC

\* ------------------------------------------------------------------ bounds
NumBars == 2      \* rows of the loaded table
MaxTs == 2        \* timestamps are 1..MaxTs
MaxPrice == 2     \* prices are 1..MaxPrice
MaxQty == 2       \* order quantities are 0..MaxQty
NumIds == 2       \* order ids the callers draw from
MaxOrders == 2    \* submit_order calls in one behaviour
MaxTrades == 3    \* direct _add_trade calls in one ledger behaviour
MaxPointValue == 2 \* point values of a contract are 1..MaxPointValue
MaxFee == 1       \* commission and exchange fee per contract are 0..MaxFee

Timestamps == 1..MaxTs
Prices == 1..MaxPrice
Quantities == 0..MaxQty
OrderIds == 1..NumIds

\* The capacity that stands for the constructor's default: larger than the
\* number of trades any behaviour can produce, as 1000 is for a short run.
BigCap == MaxOrders + MaxTrades + 1
Capacities == {1, 2, BigCap}

VARIABLES
    df,                      \* the price table: rows with a position column
    pending_market_orders,   \* dict order_id -> MarketOrder, insertion order
    pending_limit_orders,    \* dict order_id -> LimitOrder, insertion order
    pending_stop_orders,     \* dict order_id -> StopOrder, insertion order
    _trade_buffer,            \* the deque _trade_buffer
    maxlen,                  \* the deque's maxlen
    executed_trades,         \* the executed_trades table
    pc,                      \* where the caller / backtest() stands
    idx,                     \* number of rows iterrows() has yielded
    values,                  \* the copy of the table iterrows() iterates
    row,                     \* the row the loop body currently holds
    order_log,               \* history: every submit_order call
    trade_log,               \* history: every trade the fill engine made
    _current_contract,       \* fee-aware variant: the Contract, or NoContract
    _total_fees_per_contract, \* fee-aware variant: commission + exchange fee
    _trades                  \* fee-aware variant: the _trades table

vars == <<df, pending_market_orders, pending_limit_orders, pending_stop_orders,
          _trade_buffer, maxlen, executed_trades, pc, idx, values, row,
          order_log, trade_log, _current_contract, _total_fees_per_contract,
          _trades>>

\* The state only the fee-aware variant (src/src/cerp) has.
cerp_vars == <<_current_contract, _total_fees_per_contract, _trades>>

\* _current_contract = None
NoContract ==
    [point_value |-> 0, broker_commission_per_contract |-> 0,
     exchange_fees_per_contract |-> 0]

\* SingleContractBacktesterBase.__init__: no contract, no fees, no trades.
InitCerpVars ==
    /\ _current_contract = NoContract
    /\ _total_fees_per_contract = 0
    /\ _trades = <<>>

\* ------------------------------------------------------------ data model
\* A bar as load_data leaves it: low <= open <= high, position 0.
Bars ==
    { [ts_event |-> t, open |-> o, high |-> h, low |-> l, position |-> 0] :
        t \in Timestamps, o \in Prices,
        h \in Prices, l \in Prices }

WellFormedBar(b) == b.low <= b.open /\ b.open <= b.high

\* Tables load_data can produce: bars in non-decreasing timestamp order.
Tables ==
    { t \in [1..NumBars -> {b \in Bars : WellFormedBar(b)}] :
        \A i \in 1..(NumBars - 1) : t[i].ts_event <= t[i + 1].ts_event }

NoRow == [ts_event |-> 0, open |-> 0, high |-> 0, low |-> 0, position |-> 0]

\* An order as a caller builds it.  obj is the identity of the Python object
\* (the number of the submit_order call that passed it); price is the
\* limit_price of a LimitOrder, the stop_price of a StopOrder and 0 for a
\* MarketOrder, which has neither.  ts_event is set by the caller and never
\* read by the backtester.
Order(obj, id, ts, dir, qty, type, price) ==
    [obj |-> obj, order_id |-> id, ts_event |-> ts, trade_direction |-> dir,
     quantity |-> qty, order_type |-> type, price |-> price]

Trade(id, ts, oid, dir, qty, price) ==
    [trade_id |-> id, ts_event |-> ts, assoc_order_id |-> oid,
     trade_direction |-> dir, quantity |-> qty, fill_price |-> price]

\* ------------------------------------------------------------- order book
\* Python dict semantics of d[key] = order: a key that is present keeps its
\* place in the iteration order and gets the new value, a new key goes last.
HasKey(d, key) == \E i \in 1..Len(d) : d[i].order_id = key

DictSet(d, order) ==
    IF HasKey(d, order.order_id)
    THEN [i \in 1..Len(d) |->
            IF d[i].order_id = order.order_id THEN order ELSE d[i]]
    ELSE Append(d, order)

\* A del that leaves the order in the dict.
DictDel_keep(d, key) == d

\* del d[key]
DictDel(d, key) == SelectSeq(d, LAMBDA o : o.order_id # key)

\* ----------------------------------------------------------- trade ledger
\* deque.append with maxlen: a full deque drops its leftmost element.
DequeAppend(buf, cap, x) ==
    IF Len(buf) >= cap THEN Tail(Append(buf, x)) ELSE Append(buf, x)

\* The backtester state the fill engine threads through one bar: the table,
\* the buffer, the executed_trades table and the trade history.
\* A flush that copies the buffer into the table and does not clear it.
_flush_trade_buffer_keep(s) ==
    IF s.buf = <<>> THEN s
    ELSE [s EXCEPT !.exe = s.exe \o s.buf]

\* A flush that puts the new rows in front of the table.
_flush_trade_buffer_prepend(s) ==
    IF s.buf = <<>> THEN s
    ELSE [s EXCEPT !.exe = s.buf \o s.exe, !.buf = <<>>]

_flush_trade_buffer(s) ==
    IF s.buf = <<>> THEN s
    ELSE [s EXCEPT !.exe = s.exe \o s.buf, !.buf = <<>>]

\* A position change that forgets the direction of the trade.
position_change_unsigned(trade) == trade.quantity

position_change(trade) ==
    IF trade.trade_direction = "BUY" THEN trade.quantity ELSE -trade.quantity

\* df.loc[df['ts_event'] >= trade.ts_event, 'position'] += position_change
ApplyPosition(table, trade) ==
    [i \in 1..Len(table) |->
        IF table[i].ts_event >= trade.ts_event
        THEN [table[i] EXCEPT !.position = @ + position_change(trade)]
        ELSE table[i]]

\* _add_trade flushing only once the buffer is over its capacity.
_add_trade_late_flush(s, trade) ==
    LET appended == [s EXCEPT !.buf = DequeAppend(s.buf, s.cap, trade),
                              !.df = ApplyPosition(s.df, trade)]
    IN  IF Len(appended.buf) > s.cap
        THEN _flush_trade_buffer(appended)
        ELSE appended

_add_trade(s, trade) ==
    LET appended == [s EXCEPT !.buf = DequeAppend(s.buf, s.cap, trade),
                              !.df = ApplyPosition(s.df, trade)]
    IN  IF Len(appended.buf) >= s.cap
        THEN _flush_trade_buffer(appended)
        ELSE appended

\* ------------------------------------------------------------ fill engine
\* The three loops of _process_orders: which pending order fills on a row,
\* and at which price.
MarketFills(order, r) == TRUE

MarketFillPrice(order, r) == r.open

\* A limit test with strict comparisons.
LimitFills_strict(order, r) ==
    \/ order.trade_direction = "BUY" /\ order.price > r.low
    \/ order.trade_direction = "SELL" /\ order.price < r.high

LimitFills(order, r) ==
    \/ order.trade_direction = "BUY" /\ order.price >= r.low
    \/ order.trade_direction = "SELL" /\ order.price <= r.high

LimitFillPrice(order, r) == order.price

StopFills(order, r) ==
    \/ order.trade_direction = "BUY" /\ r.high >= order.price
    \/ order.trade_direction = "SELL" /\ r.low <= order.price

Max(a, b) == IF a >= b THEN a ELSE b

Min(a, b) == IF a <= b THEN a ELSE b

\* A stop that always fills at its stop price, gap or not.
StopFillPrice_at_stop(order, r) == order.price

StopFillPrice(order, r) ==
    IF order.trade_direction = "BUY"
    THEN Max(order.price, r.open)
    ELSE Min(order.price, r.open)

Fills(order, r) ==
    CASE order.order_type = "MARKET" -> MarketFills(order, r)
      [] order.order_type = "LIMIT" -> LimitFills(order, r)
      [] order.order_type = "STOP" -> StopFills(order, r)

FillPrice(order, r) ==
    CASE order.order_type = "MARKET" -> MarketFillPrice(order, r)
      [] order.order_type = "LIMIT" -> LimitFillPrice(order, r)
      [] order.order_type = "STOP" -> StopFillPrice(order, r)

\* One pass of a loop body that fills: build the Trade with a fresh uuid4
\* (the number of the trade), hand it to _add_trade, record it in the history
\* with the order object and the row number it came from.
FillOrder(s, order, r) ==
    LET trade == Trade(Len(s.log) + 1, r.ts_event, order.order_id,
                       order.trade_direction, order.quantity,
                       FillPrice(order, r))
    IN  [_add_trade(s, trade) EXCEPT
            !.log = Append(s.log, [trade |-> trade, obj |-> order.obj,
                                   order_type |-> order.order_type,
                                   bar |-> s.bar])]

\* for order_id, order in list(d.items()): ... del d[order_id]
\* snapshot is what is left of list(d.items()); the result is the backtester
\* state and the dict after the loop.
RECURSIVE ProcessPending(_, _, _, _)
ProcessPending(s, d, snapshot, r) ==
    IF snapshot = <<>> THEN [s |-> s, d |-> d]
    ELSE LET order == Head(snapshot)
         IN  IF Fills(order, r)
             THEN ProcessPending(FillOrder(s, order, r),
                                 DictDel(d, order.order_id), Tail(snapshot), r)
             ELSE ProcessPending(s, d, Tail(snapshot), r)

\* A fill engine that runs the stop loop first.
_process_orders_stop_first(s, market, limit, stop, r) ==
    LET t == ProcessPending(s, stop, stop, r)
        m == ProcessPending(t.s, market, market, r)
        l == ProcessPending(m.s, limit, limit, r)
    IN  [s |-> l.s, market |-> m.d, limit |-> l.d, stop |-> t.d]

\* _process_orders(row): market orders, then limit orders, then stop orders.
_process_orders(s, market, limit, stop, r) ==
    LET m == ProcessPending(s, market, market, r)
        l == ProcessPending(m.s, limit, limit, r)
        t == ProcessPending(l.s, stop, stop, r)
    IN  [s |-> t.s, market |-> m.d, limit |-> l.d, stop |-> t.d]

\* submit_order(order): the isinstance chain.
submit_order(book, order) ==
    CASE order.order_type = "MARKET" ->
            [book EXCEPT !.market = DictSet(book.market, order)]
      [] order.order_type = "LIMIT" ->
            [book EXCEPT !.limit = DictSet(book.limit, order)]
      [] order.order_type = "STOP" ->
            [book EXCEPT !.stop = DictSet(book.stop, order)]

\* ------------------------------------------------------------------ state
Init ==
    /\ df \in Tables
    /\ pending_market_orders = <<>>
    /\ pending_limit_orders = <<>>
    /\ pending_stop_orders = <<>>
    /\ _trade_buffer = <<>>
    /\ maxlen = BigCap
    /\ executed_trades = <<>>
    /\ pc = "idle"
    /\ idx = 0
    /\ values = <<>>
    /\ row = NoRow
    /\ order_log = <<>>
    /\ trade_log = <<>>
    /\ InitCerpVars

\* The orders a caller can pass: any id, direction and quantity (nothing in
\* the dataclasses restricts them), a price for limit and stop orders.
NewOrders ==
    { Order(Len(order_log) + 1, id, row.ts_event, dir, qty, type, price) :
        id \in OrderIds, dir \in {"BUY", "SELL"}, qty \in Quantities,
        type \in {"MARKET", "LIMIT", "STOP"}, price \in 0..MaxPrice }

ValidOrder(o) == (o.order_type = "MARKET") <=> (o.price = 0)

\* submit_order, called before backtest() or from inside the strategy callback.
SubmitOrder ==
    /\ pc \in {"idle", "strategy"}
    /\ Len(order_log) < MaxOrders
    /\ \E order \in NewOrders :
        /\ ValidOrder(order)
        /\ LET book == submit_order([market |-> pending_market_orders,
                                     limit |-> pending_limit_orders,
                                     stop |-> pending_stop_orders], order)
           IN  /\ pending_market_orders' = book.market
               /\ pending_limit_orders' = book.limit
               /\ pending_stop_orders' = book.stop
        /\ order_log' = Append(order_log, [order |-> order, bar |-> idx])
    /\ UNCHANGED <<cerp_vars, df, _trade_buffer, maxlen, executed_trades, pc,
                   idx, values,
                   row, trade_log>>

\* backtest() up to the loop: indicators() adds columns the fill engine does
\* not read; iterrows() takes self.values, a copy of the mixed-dtype table,
\* once, and yields its rows.
Backtest ==
    /\ pc = "idle"
    /\ pc' = "process"
    /\ values' = df
    /\ UNCHANGED <<cerp_vars, df, pending_market_orders, pending_limit_orders,
                   pending_stop_orders, _trade_buffer, maxlen, executed_trades,
                   idx, row, order_log, trade_log>>

\* One iteration of the loop up to the strategy call: the next row of the
\* copy, then _process_orders(row).
ProcessBar ==
    /\ pc = "process"
    /\ idx < Len(values)
    /\ LET r == values[idx + 1]
           res == _process_orders(
                    [df |-> df, buf |-> _trade_buffer, exe |-> executed_trades,
                     cap |-> maxlen, log |-> trade_log, bar |-> idx + 1],
                    pending_market_orders, pending_limit_orders,
                    pending_stop_orders, r)
       IN  /\ row' = r
           /\ df' = res.s.df
           /\ _trade_buffer' = res.s.buf
           /\ executed_trades' = res.s.exe
           /\ trade_log' = res.s.log
           /\ pending_market_orders' = res.market
           /\ pending_limit_orders' = res.limit
           /\ pending_stop_orders' = res.stop
    /\ idx' = idx + 1
    /\ pc' = "strategy"
    /\ UNCHANGED <<cerp_vars, maxlen, values, order_log>>

\* A loop body that evaluates the pending orders against the current row
\* once more after the strategy has run.
StrategyReturn_reprocess ==
    /\ pc = "strategy"
    /\ LET res == _process_orders(
                    [df |-> df, buf |-> _trade_buffer, exe |-> executed_trades,
                     cap |-> maxlen, log |-> trade_log, bar |-> idx],
                    pending_market_orders, pending_limit_orders,
                    pending_stop_orders, row)
       IN  /\ df' = res.s.df
           /\ _trade_buffer' = res.s.buf
           /\ executed_trades' = res.s.exe
           /\ trade_log' = res.s.log
           /\ pending_market_orders' = res.market
           /\ pending_limit_orders' = res.limit
           /\ pending_stop_orders' = res.stop
    /\ pc' = "process"
    /\ UNCHANGED <<cerp_vars, maxlen, idx, values, row, order_log>>

\* strategy(row) returns; the loop goes on.
StrategyReturn ==
    /\ pc = "strategy"
    /\ pc' = "process"
    /\ UNCHANGED <<cerp_vars, df, pending_market_orders, pending_limit_orders,
                   pending_stop_orders, _trade_buffer, maxlen, executed_trades,
                   idx, values, row, order_log, trade_log>>

\* iterrows() is exhausted: backtest() returns.
BacktestReturn ==
    /\ pc = "process"
    /\ idx = Len(values)
    /\ pc' = "done"
    /\ UNCHANGED <<cerp_vars, df, pending_market_orders, pending_limit_orders,
                   pending_stop_orders, _trade_buffer, maxlen, executed_trades,
                   idx, values, row, order_log, trade_log>>

\* The caller flushes the buffer, before or after the run.
FlushTradeBuffer ==
    /\ pc \in {"idle", "done"}
    /\ LET s == _flush_trade_buffer(
                    [df |-> df, buf |-> _trade_buffer, exe |-> executed_trades,
                     cap |-> maxlen, log |-> trade_log, bar |-> idx])
       IN  /\ _trade_buffer' = s.buf
           /\ executed_trades' = s.exe
    /\ UNCHANGED <<cerp_vars, df, pending_market_orders, pending_limit_orders,
                   pending_stop_orders, maxlen, pc, idx, values, row,
                   order_log, trade_log>>

Next ==
    \/ SubmitOrder
    \/ Backtest
    \/ ProcessBar
    \/ StrategyReturn
    \/ BacktestReturn
    \/ FlushTradeBuffer

Spec == Init /\ [][Next]_vars

\* ------------------------------------------------- the ledger on its own
\* The trade ledger driven directly, as a test of _add_trade and
\* _flush_trade_buffer drives it: any capacity, any trades, flushes
\* in between.  Prices play no part, so the table has one price.
LedgerTables ==
    { t \in Tables : \A i \in 1..NumBars :
        t[i].open = 1 /\ t[i].high = 1 /\ t[i].low = 1 }

InitLedger ==
    /\ df \in LedgerTables
    /\ pending_market_orders = <<>>
    /\ pending_limit_orders = <<>>
    /\ pending_stop_orders = <<>>
    /\ _trade_buffer = <<>>
    /\ maxlen \in Capacities
    /\ executed_trades = <<>>
    /\ pc = "idle"
    /\ idx = 0
    /\ values = <<>>
    /\ row = NoRow
    /\ order_log = <<>>
    /\ trade_log = <<>>
    /\ InitCerpVars

\* The trades a direct caller adds.  The ledger reads the time, direction and
\* quantity of a trade (for the position column) and stores the rest as it
\* is, so the order id and the price are the same for all of them; the fresh
\* trade_id tells the trades apart.
NewTrades ==
    { Trade(Len(trade_log) + 1, ts, 1, dir, qty, 1) :
        ts \in Timestamps, dir \in {"BUY", "SELL"}, qty \in 1..MaxQty }

\* _add_trade(trade), called directly.
AddTrade ==
    /\ pc = "idle"
    /\ Len(trade_log) < MaxTrades
    /\ \E trade \in NewTrades :
        LET s == _add_trade(
                    [df |-> df, buf |-> _trade_buffer, exe |-> executed_trades,
                     cap |-> maxlen, log |-> trade_log, bar |-> idx], trade)
        IN  /\ df' = s.df
            /\ _trade_buffer' = s.buf
            /\ executed_trades' = s.exe
            /\ trade_log' = Append(trade_log,
                                   [trade |-> trade, obj |-> 0,
                                    order_type |-> "NONE", bar |-> idx])
    /\ UNCHANGED <<cerp_vars, pending_market_orders, pending_limit_orders,
                   pending_stop_orders, maxlen, pc, idx, values, row,
                   order_log>>

NextLedger ==
    \/ AddTrade
    \/ FlushTradeBuffer

SpecLedger == InitLedger /\ [][NextLedger]_vars

\* ------------------------------------------------ the fee-aware variant
\* SingleContractBacktesterBase (src/src/cerp): the same order book and the
\* same loop, a Contract that prices the fees, and a fill engine of its own.
\* Its table _df is df without a position column that is ever written, its
\* orders name the direction order_direction; the model keeps one Order
\* record for both variants.
Contracts ==
    { [point_value |-> pv, broker_commission_per_contract |-> c,
       exchange_fees_per_contract |-> e] :
        pv \in 1..MaxPointValue, c \in 0..MaxFee, e \in 0..MaxFee }

\* A set_contract that forgets the exchange fee.
set_contract_commission_only(contract) ==
    [contract |-> contract,
     total |-> contract.broker_commission_per_contract]

set_contract(contract) ==
    [contract |-> contract,
     total |-> contract.broker_commission_per_contract
                 + contract.exchange_fees_per_contract]

\* Float arithmetic, kept exact: a / b as the pair (a, b), x + q and x - q
\* on such a pair.
Quot(a, b) == [num |-> a, den |-> b]

Plus(x, q) == [num |-> x * q.den + q.num, den |-> q.den]

Minus(x, q) == [num |-> x * q.den - q.num, den |-> q.den]

CerpTrade(id, ts, oid, dir, qty, fill_at, fees, adjusted) ==
    [trade_id |-> id, ts_event |-> ts, associated_order_id |-> oid,
     trade_direction |-> dir, quantity |-> qty, fill_at |-> fill_at,
     commission_and_fees |-> fees, fill_adjusted |-> adjusted]

\* def _register_trade_execution(self, trade): pass
_register_trade_execution(trades, trade) == trades

\* A contract test that never finds the contract missing.
ContractMissing_never(contract) == FALSE

\* if self._current_contract is None
ContractMissing(contract) == contract = NoContract

\* The market loop of _process_pending_orders.  c is the fee-aware state the
\* loop threads: the contract, the fee total, the _trades table, the trade
\* history and the row number.
CerpFillMarket(c, order, r) ==
    LET shift == Quot(c.total, c.contract.point_value)
        trade == CerpTrade(Len(c.log) + 1, r.ts_event, order.order_id,
                           order.trade_direction, order.quantity, r.open,
                           c.total * order.quantity,
                           IF order.trade_direction = "BUY"
                           THEN Plus(r.open, shift)
                           ELSE Minus(r.open, shift))
    IN  [c EXCEPT
            !.trades = _register_trade_execution(c.trades, trade),
            !.log = Append(c.log, [trade |-> trade, obj |-> order.obj,
                                   order_type |-> order.order_type,
                                   bar |-> c.bar])]

RECURSIVE CerpProcessMarket(_, _, _, _)
CerpProcessMarket(c, d, snapshot, r) ==
    IF snapshot = <<>> THEN [c |-> c, d |-> d]
    ELSE CerpProcessMarket(CerpFillMarket(c, Head(snapshot), r),
                           DictDel(d, Head(snapshot).order_id),
                           Tail(snapshot), r)

\* for order_id, order in list(self.pending_limit_orders.items()): pass
CerpProcessLimit(d, r) == d

\* for order_id, order in list(self.pending_stop_orders.items()): pass
CerpProcessStop(d, r) == d

\* _process_pending_orders(row) once the contract test has passed.
_process_pending_orders(c, market, limit, stop, r) ==
    LET m == CerpProcessMarket(c, market, market, r)
    IN  [c |-> m.c, market |-> m.d,
         limit |-> CerpProcessLimit(limit, r),
         stop |-> CerpProcessStop(stop, r)]

\* The fee-aware submit_order: the same isinstance chain.
cerp_submit_order(book, order) ==
    CASE order.order_type = "MARKET" ->
            [book EXCEPT !.market = DictSet(book.market, order)]
      [] order.order_type = "LIMIT" ->
            [book EXCEPT !.limit = DictSet(book.limit, order)]
      [] order.order_type = "STOP" ->
            [book EXCEPT !.stop = DictSet(book.stop, order)]

\* The fee-aware variant never reads or writes a timestamp-keyed column, so
\* its tables have one timestamp per row: the row number.
CerpTables ==
    { t \in Tables : \A i \in 1..NumBars : t[i].ts_event = Min(i, MaxTs) }

\* The orders its callers pass: as NewOrders, with a positive quantity.
CerpNewOrders == { o \in NewOrders : o.quantity > 0 }

InitCerp ==
    /\ df \in CerpTables
    /\ pending_market_orders = <<>>
    /\ pending_limit_orders = <<>>
    /\ pending_stop_orders = <<>>
    /\ _trade_buffer = <<>>
    /\ maxlen = BigCap
    /\ executed_trades = <<>>
    /\ pc = "idle"
    /\ idx = 0
    /\ values = <<>>
    /\ row = NoRow
    /\ order_log = <<>>
    /\ trade_log = <<>>
    /\ InitCerpVars

base_vars == <<_trade_buffer, maxlen, executed_trades>>

\* set_contract(contract), called before the run.
SetContract ==
    /\ pc = "idle"
    /\ \E contract \in Contracts :
        LET res == set_contract(contract)
        IN  /\ _current_contract' = res.contract
            /\ _total_fees_per_contract' = res.total
    /\ UNCHANGED <<base_vars, df, pending_market_orders, pending_limit_orders,
                   pending_stop_orders, pc, idx, values, row, order_log,
                   trade_log, _trades>>

\* The fee-aware submit_order, called before run_backtest() or from inside
\* the strategy callback.
CerpSubmitOrder ==
    /\ pc \in {"idle", "strategy"}
    /\ Len(order_log) < MaxOrders
    /\ \E order \in CerpNewOrders :
        /\ ValidOrder(order)
        /\ LET book == cerp_submit_order(
                            [market |-> pending_market_orders,
                             limit |-> pending_limit_orders,
                             stop |-> pending_stop_orders], order)
           IN  /\ pending_market_orders' = book.market
               /\ pending_limit_orders' = book.limit
               /\ pending_stop_orders' = book.stop
        /\ order_log' = Append(order_log, [order |-> order, bar |-> idx])
    /\ UNCHANGED <<base_vars, cerp_vars, df, pc, idx, values, row, trade_log>>

\* run_backtest() up to the loop: add_indicators(), then iterrows() over a
\* copy of the table.
RunBacktest ==
    /\ pc = "idle"
    /\ pc' = "process"
    /\ values' = df
    /\ UNCHANGED <<base_vars, cerp_vars, df, pending_market_orders,
                   pending_limit_orders, pending_stop_orders, idx, row,
                   order_log, trade_log>>

\* One iteration of the loop up to the strategy call: the next row, then
\* _process_pending_orders(row), which raises ValueError out of
\* run_backtest() when no contract is set.
CerpProcessBar ==
    /\ pc = "process"
    /\ idx < Len(values)
    /\ row' = values[idx + 1]
    /\ idx' = idx + 1
    /\ IF ContractMissing(_current_contract)
       THEN /\ pc' = "error"
            /\ UNCHANGED <<pending_market_orders, pending_limit_orders,
                           pending_stop_orders, trade_log, _trades>>
       ELSE LET res == _process_pending_orders(
                         [contract |-> _current_contract,
                          total |-> _total_fees_per_contract,
                          trades |-> _trades, log |-> trade_log,
                          bar |-> idx + 1],
                         pending_market_orders, pending_limit_orders,
                         pending_stop_orders, values[idx + 1])
            IN  /\ pc' = "strategy"
                /\ pending_market_orders' = res.market
                /\ pending_limit_orders' = res.limit
                /\ pending_stop_orders' = res.stop
                /\ trade_log' = res.c.log
                /\ _trades' = res.c.trades
    /\ UNCHANGED <<base_vars, df, values, order_log, _current_contract,
                   _total_fees_per_contract>>

\* strategy(row) returns; the loop goes on.
CerpStrategyReturn ==
    /\ pc = "strategy"
    /\ pc' = "process"
    /\ UNCHANGED <<base_vars, cerp_vars, df, pending_market_orders,
                   pending_limit_orders, pending_stop_orders, idx, values,
                   row, order_log, trade_log>>

\* iterrows() is exhausted: run_backtest() returns.
RunBacktestReturn ==
    /\ pc = "process"
    /\ idx = Len(values)
    /\ pc' = "done"
    /\ UNCHANGED <<base_vars, cerp_vars, df, pending_market_orders,
                   pending_limit_orders, pending_stop_orders, idx, values,
                   row, order_log, trade_log>>

NextCerp ==
    \/ SetContract
    \/ CerpSubmitOrder
    \/ RunBacktest
    \/ CerpProcessBar
    \/ CerpStrategyReturn
    \/ RunBacktestReturn

SpecCerp == InitCerp /\ [][NextCerp]_vars

\* --------------------------------------------------------------- helpers
\* The trades produced so far, in the order they were handed to _add_trade.
Produced == [i \in 1..Len(trade_log) |-> trade_log[i].trade]

RECURSIVE SignedSum(_)
SignedSum(trades) ==
    IF trades = <<>> THEN 0
    ELSE (IF Head(trades).trade_direction = "BUY"
          THEN Head(trades).quantity
          ELSE 0 - Head(trades).quantity) + SignedSum(Tail(trades))

\* ---------------------------------------------------------------- claims
\* C1: when backtest() has processed the last bar and returned, every trade
\* produced during the run is in executed_trades and the trade buffer is
\* empty.
C1_RunEndAllTradesDurable ==
    pc = "done" => (_trade_buffer = <<>> /\ executed_trades = Produced)

\* C2: the position field of the row the strategy callback is invoked with
\* equals the signed sum of all trades filled up to and including the order
\* processing of that bar.
C2_StrategySeesUpdatedPosition ==
    pc = "strategy" => row.position = SignedSum(Produced)

\* C3: every submitted market order fills exactly once, on the first bar
\* strictly after its submission, at that bar's open: once that bar has been
\* processed there is exactly one trade made from the order, made on that bar
\* at its open price.
FillsOf(obj) == {k \in 1..Len(trade_log) : trade_log[k].obj = obj}

C3_MarketOrderFillsOnceAtNextOpen ==
    \A i \in 1..Len(order_log) :
        (order_log[i].order.order_type = "MARKET" /\ order_log[i].bar < idx)
        => /\ Cardinality(FillsOf(i)) = 1
           /\ \A k \in FillsOf(i) :
                /\ trade_log[k].bar = order_log[i].bar + 1
                /\ trade_log[k].trade.fill_price
                     = values[order_log[i].bar + 1].open

\* C4: a submit_order call with an order whose id is already present in
\* pending storage leaves all three pending collections unchanged (the
\* pending order with that id is not overwritten).
IsSubmit == Len(order_log') = Len(order_log) + 1

Submitted == order_log'[Len(order_log')].order

C4_DuplicateIdLeavesPendingUnchanged ==
    [][(IsSubmit /\ (\/ HasKey(pending_market_orders, Submitted.order_id)
                     \/ HasKey(pending_limit_orders, Submitted.order_id)
                     \/ HasKey(pending_stop_orders, Submitted.order_id)))
        => UNCHANGED <<pending_market_orders, pending_limit_orders,
                       pending_stop_orders>>]_vars

\* C5: once the fill engine has processed a bar, the position recorded for
\* the current bar is the sum of the quantities of all BUY trades minus the
\* sum of the quantities of all SELL trades produced so far, and a
\* submit_order call changes no position value.
C5_PositionIsSignedSum ==
    /\ [](idx >= 1 => df[idx].position = SignedSum(Produced))
    /\ [][IsSubmit => df' = df]_vars

C5_Witness ==
    /\ pc = "strategy"
    /\ idx = NumBars
    /\ Len(trade_log) = 1
    /\ trade_log[1].trade.trade_direction = "SELL"
    /\ trade_log[1].trade.quantity = 2
    /\ Len(pending_limit_orders) = 1
    /\ pending_limit_orders[1].quantity = 1
    /\ df[idx].position = 0 - 2

\* C6: a pending limit order with limit L fills on the first bar after its
\* submission where low <= L (BUY) or high >= L (SELL), at price exactly L;
\* on every earlier bar it produces no trade and stays pending unchanged.
LimitTouched(o, r) ==
    \/ o.trade_direction = "BUY" /\ r.low <= o.price
    \/ o.trade_direction = "SELL" /\ r.high >= o.price

InSeq(x, seq) == \E n \in 1..Len(seq) : seq[n] = x

\* The trades the step made from the order object obj.
NewFillsOf(obj) ==
    {k \in (Len(trade_log) + 1)..Len(trade_log') : trade_log'[k].obj = obj}

C6_LimitHistory ==
    \A k \in 1..Len(trade_log) :
        trade_log[k].order_type = "LIMIT" =>
            LET sub == order_log[trade_log[k].obj]
                f == trade_log[k].bar
            IN  /\ sub.bar < f
                /\ LimitTouched(sub.order, values[f])
                /\ trade_log[k].trade.fill_price = sub.order.price
                /\ trade_log[k].trade.ts_event = values[f].ts_event
                /\ \A j \in (sub.bar + 1)..(f - 1) :
                        ~LimitTouched(sub.order, values[j])

C6_LimitStep ==
    idx' = idx + 1 =>
        \A n \in 1..Len(pending_limit_orders) :
            LET o == pending_limit_orders[n]
            IN  IF LimitTouched(o, values[idx + 1])
                THEN /\ Cardinality(NewFillsOf(o.obj)) = 1
                     /\ \A k \in NewFillsOf(o.obj) :
                            trade_log'[k].trade.fill_price = o.price
                     /\ ~InSeq(o, pending_limit_orders')
                ELSE /\ NewFillsOf(o.obj) = {}
                     /\ InSeq(o, pending_limit_orders')

C6_LimitFillsAtLimitOnFirstTouch ==
    /\ []C6_LimitHistory
    /\ [][C6_LimitStep]_vars

C6_Witness ==
    /\ idx = 2
    /\ \E k \in 1..Len(trade_log) :
        /\ trade_log[k].order_type = "LIMIT"
        /\ trade_log[k].bar = 2
        /\ order_log[trade_log[k].obj].bar = 0
        /\ trade_log[k].trade.fill_price # values[2].open

\* C7: a pending stop order with stop S fills on the first bar after its
\* submission where high >= S (BUY) or low <= S (SELL), at max(S, open) for
\* BUY and min(S, open) for SELL; on every earlier bar it produces no trade
\* and stays pending unchanged.
StopTouched(o, r) ==
    \/ o.trade_direction = "BUY" /\ r.high >= o.price
    \/ o.trade_direction = "SELL" /\ r.low <= o.price

StopPrice(o, r) ==
    IF o.trade_direction = "BUY"
    THEN (IF o.price >= r.open THEN o.price ELSE r.open)
    ELSE (IF o.price <= r.open THEN o.price ELSE r.open)

C7_StopHistory ==
    \A k \in 1..Len(trade_log) :
        trade_log[k].order_type = "STOP" =>
            LET sub == order_log[trade_log[k].obj]
                f == trade_log[k].bar
            IN  /\ sub.bar < f
                /\ StopTouched(sub.order, values[f])
                /\ trade_log[k].trade.fill_price
                     = StopPrice(sub.order, values[f])
                /\ trade_log[k].trade.ts_event = values[f].ts_event
                /\ \A j \in (sub.bar + 1)..(f - 1) :
                        ~StopTouched(sub.order, values[j])

C7_StopStep ==
    idx' = idx + 1 =>
        \A n \in 1..Len(pending_stop_orders) :
            LET o == pending_stop_orders[n]
            IN  IF StopTouched(o, values[idx + 1])
                THEN /\ Cardinality(NewFillsOf(o.obj)) = 1
                     /\ \A k \in NewFillsOf(o.obj) :
                            trade_log'[k].trade.fill_price
                              = StopPrice(o, values[idx + 1])
                     /\ ~InSeq(o, pending_stop_orders')
                ELSE /\ NewFillsOf(o.obj) = {}
                     /\ InSeq(o, pending_stop_orders')

C7_StopFillsAtWorseOfStopAndOpen ==
    /\ []C7_StopHistory
    /\ [][C7_StopStep]_vars

\* Two BUY stops filled on the second bar: one pending since before the run,
\* not reached by the first bar and filled at its stop; one submitted during
\* the first bar and gapped through, filled at the open, above its stop.
C7_Witness ==
    /\ idx = 2
    /\ \E k, g \in 1..Len(trade_log) :
        /\ trade_log[k].order_type = "STOP"
        /\ trade_log[k].bar = 2
        /\ order_log[trade_log[k].obj].bar = 0
        /\ trade_log[k].trade.trade_direction = "BUY"
        /\ trade_log[k].trade.fill_price
             = order_log[trade_log[k].obj].order.price
        /\ trade_log[g].order_type = "STOP"
        /\ trade_log[g].bar = 2
        /\ trade_log[g].trade.trade_direction = "BUY"
        /\ trade_log[g].trade.fill_price = values[2].open
        /\ trade_log[g].trade.fill_price
             > order_log[trade_log[g].obj].order.price

\* C8: an order submitted by the strategy callback while bar k is handled is
\* not evaluated against bar k: the submission itself produces no trade, and
\* every trade made from the order is made on, and carries the event time of,
\* a bar processed after bar k.
C8_TradesAfterSubmission ==
    \A k \in 1..Len(trade_log) :
        LET sub == order_log[trade_log[k].obj]
        IN  /\ trade_log[k].bar >= sub.bar + 1
            /\ trade_log[k].trade.ts_event = values[trade_log[k].bar].ts_event

C8_NeverFilledOnSubmissionBar ==
    /\ []C8_TradesAfterSubmission
    /\ [][IsSubmit => (trade_log' = trade_log /\ df' = df)]_vars

C8_Witness ==
    /\ idx = 2
    /\ \E k \in 1..Len(trade_log) :
        /\ order_log[trade_log[k].obj].bar = 1
        /\ trade_log[k].bar = 2

\* C9: after a flush the durable table holds every trade that was added,
\* exactly once and in the order of the adds, whatever the capacity and
\* however many capacity-triggered flushes happened in between.
C9_LedgerRoundTrip ==
    _trade_buffer = <<>> => executed_trades = Produced

\* Capacity 2, three adds: a capacity flush after the second, the third left
\* in the buffer and moved by the caller's flush.
C9_Witness ==
    /\ maxlen = 2
    /\ Len(trade_log) = 3
    /\ _trade_buffer = <<>>
    /\ Len(executed_trades) = 3

\* C10: every pending order and every trade in the ledger has quantity > 0
\* (submit_order refuses an order whose quantity is not strictly positive).
C10_QuantitiesPositive ==
    /\ \A n \in 1..Len(pending_market_orders) :
            pending_market_orders[n].quantity > 0
    /\ \A n \in 1..Len(pending_limit_orders) :
            pending_limit_orders[n].quantity > 0
    /\ \A n \in 1..Len(pending_stop_orders) :
            pending_stop_orders[n].quantity > 0
    /\ \A n \in 1..Len(_trade_buffer) : _trade_buffer[n].quantity > 0
    /\ \A n \in 1..Len(executed_trades) : executed_trades[n].quantity > 0

\* C14: within one bar the trades are appended in the precedence market,
\* limit, stop, and among orders of the same kind in the insertion order of
\* their collection (the order in which the dict holds them).
KindRank(type) ==
    CASE type = "MARKET" -> 1
      [] type = "LIMIT" -> 2
      [] type = "STOP" -> 3

PendingOf(type) ==
    CASE type = "MARKET" -> pending_market_orders
      [] type = "LIMIT" -> pending_limit_orders
      [] type = "STOP" -> pending_stop_orders

\* The place the order object obj has in its collection before the step.
PlaceOf(type, obj) ==
    CHOOSE n \in 1..Len(PendingOf(type)) : PendingOf(type)[n].obj = obj

C14_BarStep ==
    idx' = idx + 1 =>
        \A a, b \in (Len(trade_log) + 1)..Len(trade_log') :
            a < b =>
                LET ta == trade_log'[a]
                    tb == trade_log'[b]
                IN  \/ KindRank(ta.order_type) < KindRank(tb.order_type)
                    \/ /\ ta.order_type = tb.order_type
                       /\ PlaceOf(ta.order_type, ta.obj)
                            < PlaceOf(tb.order_type, tb.obj)

C14_PrecedenceWithinBar ==
    /\ [][C14_BarStep]_vars
    /\ [](_trade_buffer = SubSeq(Produced,
                                 Len(Produced) - Len(_trade_buffer) + 1,
                                 Len(Produced)))

\* A stop order submitted before a market order, both filled on the same bar:
\* the market order's trade comes first.
C14_Witness ==
    /\ Len(trade_log) = 2
    /\ trade_log[1].bar = trade_log[2].bar
    /\ trade_log[1].order_type = "MARKET"
    /\ trade_log[2].order_type = "STOP"
    /\ trade_log[2].obj < trade_log[1].obj
    /\ _trade_buffer = Produced

\* C15: with bars in non-decreasing timestamp order, equal timestamps
\* included, the position recorded for every processed row is what a running
\* accumulator held after that bar: the signed sum of the trades filled on
\* bars up to and including it (so a fill on a later bar does not change it).
TradesUpTo(i) ==
    SelectSeq(trade_log, LAMBDA e : e.bar <= i)

TradesOf(log) == [k \in 1..Len(log) |-> log[k].trade]

C15_RowPositionIsRunningSum ==
    \A i \in 1..idx :
        df[i].position = SignedSum(TradesOf(TradesUpTo(i)))

\* C16: the buffer never holds more than its capacity, and holds fewer than
\* its capacity whenever _add_trade has returned.
C16_BufferBelowCapacity ==
    Len(_trade_buffer) < maxlen

\* Capacity 2: the add that brought the length to 2 flushed, the next add
\* left one trade in the buffer.
C16_Witness ==
    /\ maxlen = 2
    /\ Len(trade_log) = 3
    /\ Len(executed_trades) = 2
    /\ Len(_trade_buffer) = 1

\* C17: no order id is in more than one of the three pending collections at
\* the same time.
C17_IdInOneCollection ==
    \A id \in OrderIds :
        Cardinality({type \in {"MARKET", "LIMIT", "STOP"} :
                        HasKey(PendingOf(type), id)}) <= 1

\* C18: when the callers submit distinct ids, every submitted order is either
\* pending, unchanged, in exactly one collection with no trade referencing
\* it, or in no collection with exactly one trade referencing its id; an
\* order leaves pending storage only in the bar step that makes its trade.
DistinctIds(log) ==
    \A i, j \in 1..Len(log) :
        i # j => log[i].order.order_id # log[j].order.order_id

CollectionsHolding(o) ==
    {type \in {"MARKET", "LIMIT", "STOP"} : InSeq(o, PendingOf(type))}

TradesReferencing(log, id) ==
    {k \in 1..Len(log) : log[k].trade.assoc_order_id = id}

C18_PendingOrFilled ==
    DistinctIds(order_log) =>
        \A i \in 1..Len(order_log) :
            LET o == order_log[i].order
            IN  \/ /\ CollectionsHolding(o) = {o.order_type}
                   /\ TradesReferencing(trade_log, o.order_id) = {}
                \/ /\ CollectionsHolding(o) = {}
                   /\ \A type \in {"MARKET", "LIMIT", "STOP"} :
                        ~HasKey(PendingOf(type), o.order_id)
                   /\ Cardinality(TradesReferencing(trade_log, o.order_id)) = 1

C18_RemovalStep ==
    DistinctIds(order_log') =>
        \A i \in 1..Len(order_log) :
            LET o == order_log[i].order
            IN  (CollectionsHolding(o) # {}) =>
                    \/ /\ InSeq(o, pending_market_orders'
                                     \o pending_limit_orders'
                                     \o pending_stop_orders')
                       /\ TradesReferencing(trade_log', o.order_id) = {}
                    \/ /\ idx' = idx + 1
                       /\ ~InSeq(o, pending_market_orders'
                                      \o pending_limit_orders'
                                      \o pending_stop_orders')
                       /\ Cardinality(NewFillsOf(o.obj)) = 1

C18_OrderLifecycle ==
    /\ []C18_PendingOrFilled
    /\ [][C18_RemovalStep]_vars

\* Two orders with distinct ids after the last bar: one filled, one limit
\* order that no bar touched and that is still pending.
C18_Witness ==
    /\ pc = "done"
    /\ Len(order_log) = 2
    /\ DistinctIds(order_log)
    /\ Len(trade_log) = 1
    /\ Len(pending_limit_orders) = 1
    /\ pending_limit_orders[1] = order_log[1].order

\* C19: the durable table followed by the buffer is the complete sequence of
\* trades produced so far, in order; the table only gains rows at its end.
IsPrefix(a, b) ==
    /\ Len(a) <= Len(b)
    /\ \A n \in 1..Len(a) : a[n] = b[n]

C19_LedgerComplete ==
    /\ [](executed_trades \o _trade_buffer = Produced)
    /\ [][IsPrefix(executed_trades, executed_trades')]_vars

\* A caller's flush after the first add, two more trades in the buffer.
C19_Witness ==
    /\ maxlen = BigCap
    /\ Len(trade_log) = 3
    /\ Len(executed_trades) = 1
    /\ Len(_trade_buffer) = 2

\* C11: in the fee-aware variant, per-bar order processing without a contract
\* raises out of the run, makes no trade and removes no pending order; once
\* set_contract has been called, per-bar processing does not raise.
C11_BarStep ==
    (pc = "process" /\ idx' = idx + 1) =>
        IF _current_contract = NoContract
        THEN /\ pc' = "error"
             /\ trade_log' = trade_log
             /\ _trades' = _trades
             /\ UNCHANGED <<pending_market_orders, pending_limit_orders,
                            pending_stop_orders>>
        ELSE pc' = "strategy"

C11_NoContractRaises ==
    /\ [][C11_BarStep]_vars
    /\ [](pc = "error" => (_current_contract = NoContract /\ trade_log = <<>>))

C11_Witness ==
    /\ pc = "error"
    /\ _current_contract = NoContract
    /\ Len(pending_market_orders) = 1
    /\ Len(pending_stop_orders) = 1
    /\ trade_log = <<>>

\* C12: in the fee-aware variant a market order's raw fill price is the bar's
\* open, its fee is (commission + exchange fee) * quantity, and its adjusted
\* fill price is the open plus (commission + exchange fee) / point_value for
\* BUY and the open minus that amount for SELL.
PerContract(c) ==
    c.broker_commission_per_contract + c.exchange_fees_per_contract

C12_FeeAdjustedMarketFill ==
    \A k \in 1..Len(trade_log) :
        LET t == trade_log[k].trade
            open == values[trade_log[k].bar].open
            c == _current_contract
            sign == IF t.trade_direction = "BUY" THEN 1 ELSE 0 - 1
        IN  /\ t.fill_at = open
            /\ t.commission_and_fees = PerContract(c) * t.quantity
            /\ t.fill_adjusted.den # 0
            /\ t.fill_adjusted.num * c.point_value
                 = (open * c.point_value + sign * PerContract(c))
                     * t.fill_adjusted.den

\* A SELL of two contracts with both fees charged and point value 2: the
\* adjusted price is one point under the open.
C12_Witness ==
    /\ _current_contract.point_value = 2
    /\ _current_contract.broker_commission_per_contract = 1
    /\ _current_contract.exchange_fees_per_contract = 1
    /\ \E k \in 1..Len(trade_log) :
        /\ trade_log[k].trade.trade_direction = "SELL"
        /\ trade_log[k].trade.quantity = 2
        /\ trade_log[k].trade.commission_and_fees = 4
        /\ trade_log[k].trade.fill_at = 2
        /\ trade_log[k].trade.fill_adjusted = [num |-> 2, den |-> 2]

\* C13: every fill, in the base and in the fee-aware variant, has its trade
\* recorded in the trade ledger of its variant: no order leaves pending
\* storage through a fill whose trade is not in the ledger.
C13_EveryFillRecorded ==
    (executed_trades \o _trade_buffer) \o _trades = Produced

\* C20: the fee-aware variant fills the limit and stop orders the base
\* variant fills: a bar step removes from pending storage, with a trade,
\* every limit order with limit_price >= low (BUY) or <= high (SELL) and
\* every stop order with high >= stop_price (BUY) or low <= stop_price (SELL).
C20_BarStep ==
    (idx' = idx + 1 /\ pc' = "strategy") =>
        /\ \A n \in 1..Len(pending_limit_orders) :
            LET o == pending_limit_orders[n]
            IN  LimitTouched(o, values[idx + 1]) <=>
                    (/\ ~InSeq(o, pending_limit_orders')
                     /\ Cardinality(NewFillsOf(o.obj)) = 1)
        /\ \A n \in 1..Len(pending_stop_orders) :
            LET o == pending_stop_orders[n]
            IN  StopTouched(o, values[idx + 1]) <=>
                    (/\ ~InSeq(o, pending_stop_orders')
                     /\ Cardinality(NewFillsOf(o.obj)) = 1)

C20_SameLimitAndStopFills ==
    [][C20_BarStep]_vars

====
